---- MODULE Spec2Model ----
(***************************************************************************)
(* Model of the business/symptom import and query service                  *)
(* (interview-challenge-v2/app: views.py, models.py, database.py).         *)
(*                                                                         *)
(* Text is a sequence of code points, so that strip(), lower() and int()   *)
(* are computed and not assumed.  The persisted store is the record db    *)
(* of three tables keyed by primary key.  A request runs in                *)
(* three steps: get_db opens a session, the handler runs, and the finally  *)
(* clause of get_db closes the session.  Requests overlap: an import is    *)
(* suspended at await file.read() and a query runs in the thread pool, one *)
(* SELECT at a step, so other requests are accepted, handled and released  *)
(* in between, and an import commits between two reads of a query.  clock  *)
(* is utcnow() as the flushes read it; the two timestamp defaults of one   *)
(* INSERT read the same time.                                              *)
(***************************************************************************)
EXTENDS Integers, Sequences, FiniteSets, TLC

VARIABLES db, clock, calls, pc, request, response, session, frame,
          open_sessions, sessions_used

vars == <<db, clock, calls, pc, request, response, session, frame,
          open_sessions, sessions_used>>

\* ------------------------------------------------------------------ bounds
MaxRows == 2
MaxCalls == 2

\* ---------------------------------------------------------- text primitives
\* A text is a sequence of Unicode code points.

\* body(v) with v evaluated once: the value of a local variable.
Bind(v, body(_)) == CHOOSE y \in {body(x) : x \in {v}} : TRUE

\* The characters str.strip() removes (str.isspace): U+0009..U+000D,
\* U+001C..U+0020, U+0085, U+00A0, U+1680, U+2000..U+200A, U+2028, U+2029,
\* U+202F, U+205F, U+3000.
Whitespace ==
    (9..13) \cup (28..32) \cup {133, 160, 5760} \cup (8192..8202)
    \cup {8232, 8233, 8239, 8287, 12288}

\* The characters int() skips around the number: the same, except the four
\* ASCII separators U+001C..U+001F.
IntWhitespace == Whitespace \ (28..31)

\* The code point of the digit zero of every decimal digit block (Unicode
\* category Nd, Unicode 14.0.0); the digits 1 to 9 of a block follow its zero.
DigitZeros ==
    {
     48, 1632, 1776, 1984, 2406, 2534, 2662, 2790,
     2918, 3046, 3174, 3302, 3430, 3558, 3664, 3792,
     3872, 4160, 4240, 6112, 6160, 6470, 6608, 6784,
     6800, 6992, 7088, 7232, 7248, 42528, 43216, 43264,
     43472, 43504, 43600, 44016, 65296, 66720, 68912, 69734,
     69872, 69942, 70096, 70384, 70736, 70864, 71248, 71360,
     71472, 71904, 72016, 72784, 73040, 73120, 92768, 92864,
     93008, 120782, 120792, 120802, 120812, 120822, 123200, 123632,
     125264, 130032
    }

IsDigit(c) == \E z \in DigitZeros : z <= c /\ c <= z + 9

DigitVal(c) == c - (CHOOSE z \in DigitZeros : z <= c /\ c <= z + 9)

RECURSIVE lstripOf(_, _)
lstripOf(s, chars) ==
    IF s # <<>> /\ Head(s) \in chars THEN lstripOf(Tail(s), chars) ELSE s

RECURSIVE rstripOf(_, _)
rstripOf(s, chars) ==
    IF s # <<>> /\ s[Len(s)] \in chars
    THEN rstripOf(SubSeq(s, 1, Len(s) - 1), chars)
    ELSE s

\* str.strip()
strip(s) == rstripOf(lstripOf(s, Whitespace), Whitespace)

\* sys.int_info.default_max_str_digits: int() of a longer decimal literal
\* raises ValueError.
max_str_digits == 4300

RECURSIVE DecimalValue(_, _)
DecimalValue(s, acc) ==
    IF s = <<>> THEN acc
    ELSE IF Head(s) = 95 THEN DecimalValue(Tail(s), acc)
    ELSE DecimalValue(Tail(s), 10 * acc + DigitVal(Head(s)))

\* int(text): surrounding whitespace and one sign ("+" 43, "-" 45) are
\* accepted, the digits are decimal digits of any script and may be grouped
\* by single underscores (95); anything else, and a literal of more than
\* max_str_digits digits, raises ValueError.  Leading zeros add nothing to
\* the value.
int(s) ==
    LET t      == rstripOf(lstripOf(s, IntWhitespace), IntWhitespace)
        signed == t # <<>> /\ t[1] \in {43, 45}
        body   == IF signed THEN Tail(t) ELSE t
        wellformed ==
            /\ body # <<>>
            /\ \A i \in DOMAIN body : IsDigit(body[i]) \/ body[i] = 95
            /\ body[1] # 95
            /\ body[Len(body)] # 95
            /\ \A i \in 1..(Len(body) - 1) : ~(body[i] = 95 /\ body[i + 1] = 95)
            /\ Cardinality({i \in DOMAIN body : body[i] # 95}) <= max_str_digits
        nonzero == {i \in DOMAIN body : body[i] # 95 /\ DigitVal(body[i]) # 0}
        mag    == IF nonzero = {} THEN 0
                  ELSE LET first == CHOOSE i \in nonzero : \A j \in nonzero : i <= j
                       IN  DecimalValue(SubSeq(body, first, Len(body)), 0)
    IN  IF wellformed
        THEN [ok |-> TRUE, v |-> IF signed /\ t[1] = 45 THEN 0 - mag ELSE mag]
        ELSE [ok |-> FALSE, v |-> 0]

\* "true", "1", "yes"
TruthyWords == {<<116, 114, 117, 101>>, <<49>>, <<121, 101, 115>>}

\* The code points that str.lower() maps to the one ASCII character c: a
\* small letter and its capital (and U+212A KELVIN SIGN for "k"), any other
\* character only itself, a capital letter none.
LowersTo(c) ==
    IF c \in 97..122 THEN {c, c - 32} \cup (IF c = 107 THEN {8490} ELSE {})
    ELSE IF c \in 65..90 THEN {}
    ELSE {c}

\* text.lower() in ("true", "1", "yes"), text being stripped already
truthy(s) ==
    \E w \in TruthyWords :
        /\ Len(s) = Len(w)
        /\ \A i \in DOMAIN w : s[i] \in LowersTo(w[i])

\* ------------------------------------------------------------- csv.DictReader
Columns == <<"Business ID", "Business Name", "Symptom Code", "Symptom Name",
             "Symptom Diagnostic">>

\* row[col] of the dict that DictReader builds for one line: the key is absent
\* when the header lacks the column, and the value is None (restval) when the
\* line has fewer fields than the header.
Lookup(header, row, col) ==
    LET at == {i \in DOMAIN header : header[i] = col}
        i  == CHOOSE j \in at : \A k \in at : k <= j
    IN  IF at = {} THEN [key |-> FALSE, none |-> FALSE, text |-> <<>>]
        ELSE IF i > Len(row) THEN [key |-> TRUE, none |-> TRUE, text |-> <<>>]
        ELSE [key |-> TRUE, none |-> FALSE, text |-> row[i]]

\* csv.field_size_limit(): the reader raises csv.Error on a longer field.
field_size_limit == 131072

\* A line the reader cannot parse, such as one with a carriage return inside
\* an unquoted field.  No code point is negative.
MalformedLine == << <<-1>> >>

\* Whether reading the line raises csv.Error.
csv_error(line) ==
    \/ line = MalformedLine
    \/ \E i \in DOMAIN line : Len(line[i]) > field_size_limit

\* Iterating DictReader over the header line and the lines after it: the
\* dicts it yields, lines without any field skipped, up to the first line
\* whose reading raises; error names that exception.  The header line is read
\* with the first row.
DictReader(header, rows) ==
    LET bad == {i \in DOMAIN rows : csv_error(rows[i])}
        cut == IF bad = {} THEN Len(rows) + 1
               ELSE CHOOSE i \in bad : \A j \in bad : i <= j
    IN  IF csv_error(header)
        THEN [rows |-> <<>>, error |-> "Error"]
        ELSE [rows  |-> SelectSeq(SubSeq(rows, 1, cut - 1), LAMBDA r : r # <<>>),
              error |-> IF bad = {} THEN "" ELSE "Error"]

StrField(f) ==
    IF ~f.key THEN [error |-> "KeyError", text |-> <<>>]
    ELSE IF f.none THEN [error |-> "AttributeError", text |-> <<>>]
    ELSE [error |-> "", text |-> strip(f.text)]

FirstError(errors) ==
    LET bad == {i \in DOMAIN errors : errors[i] # ""}
    IN  IF bad = {} THEN ""
        ELSE errors[CHOOSE i \in bad : \A j \in bad : i <= j]

\* The five assignments at the head of the loop body, in order; error names
\* the exception of the first one that raises.
ParseRow(header, row) ==
    LET f_id   == Lookup(header, row, Columns[1])
        parsed == int(f_id.text)
        e_id   == IF ~f_id.key THEN "KeyError"
                  ELSE IF f_id.none THEN "TypeError"
                  ELSE IF ~parsed.ok THEN "ValueError"
                  ELSE ""
        name   == StrField(Lookup(header, row, Columns[2]))
        code   == StrField(Lookup(header, row, Columns[3]))
        sname  == StrField(Lookup(header, row, Columns[4]))
        diag   == StrField(Lookup(header, row, Columns[5]))
    IN  [error    |-> FirstError(<<e_id, name.error, code.error, sname.error, diag.error>>),
         biz_id   |-> parsed.v,
         biz_name |-> name.text,
         sym_code |-> code.text,
         sym_name |-> sname.text,
         diag     |-> truthy(diag.text)]

\* ------------------------------------------------------------------ session
Tables == {"businesses", "symptoms", "business_symptoms"}

EmptyTable == [k \in {} |-> <<>>]

EmptyDb == [t \in Tables |-> EmptyTable]

\* SessionLocal(): nothing pending, nothing loaded.  new holds the pending
\* objects in the order they were added; identity_map holds the persistent
\* objects this session has loaded, with their current attribute values.
SessionLocal == [new          |-> [t \in Tables |-> <<>>],
                 identity_map |-> [t \in Tables |-> EmptyTable]]

Put(f, k, v) == [x \in DOMAIN f \cup {k} |-> IF x = k THEN v ELSE f[x]]

\* Faulty variant of merge: Session.add() in its place, nothing is looked up.
merge_always_add(sess, store, table, key, val) ==
    [sess EXCEPT !.new[table] = Append(@, [key |-> key, val |-> val])]

\* Session.merge(obj) with autoflush off: an object of that key in the
\* identity map is updated in place; otherwise the row is loaded from the
\* store and updated; otherwise a new pending object is added.  Pending
\* objects are not in the identity map and autoflush is off, so they are not
\* found by a later merge of the same key.
merge(sess, store, table, key, val) ==
    IF key \in DOMAIN sess.identity_map[table]
    THEN [sess EXCEPT !.identity_map[table][key] = val]
    ELSE IF key \in DOMAIN store[table]
    THEN [sess EXCEPT !.identity_map[table] = Put(@, key, val)]
    ELSE [sess EXCEPT !.new[table] = Append(@, [key |-> key, val |-> val])]

NewKeys(sess, table) == {sess.new[table][i].key : i \in DOMAIN sess.new[table]}

NewVal(sess, table, key) ==
    sess.new[table][CHOOSE i \in DOMAIN sess.new[table] : sess.new[table][i].key = key].val

\* Primary keys: two pending objects of one key, or a pending object whose
\* key is stored already, make the INSERT fail.
PrimaryKeyOk(sess, store) ==
    \A t \in Tables :
        /\ \A i, j \in DOMAIN sess.new[t] :
               sess.new[t][i].key = sess.new[t][j].key => i = j
        /\ NewKeys(sess, t) \cap DOMAIN store[t] = {}

\* The scalar tables after the flush: INSERT of the pending objects, UPDATE
\* of the loaded ones.
FlushNames(sess, store, table) ==
    [k \in DOMAIN store[table] \cup NewKeys(sess, table) |->
        IF k \in NewKeys(sess, table) THEN NewVal(sess, table, k)
        ELSE IF k \in DOMAIN sess.identity_map[table] THEN sess.identity_map[table][k]
        ELSE store[table][k]]

\* Faulty variant of FlushLinks: no UPDATE is emitted for a loaded link.
FlushLinks_insert_only(sess, store, now) ==
    LET t == "business_symptoms"
    IN  [k \in DOMAIN store[t] \cup NewKeys(sess, t) |->
            IF k \in NewKeys(sess, t)
            THEN [diagnostic |-> NewVal(sess, t, k), created_at |-> now, updated_at |-> now]
            ELSE store[t][k]]

\* Faulty variant of FlushLinks: every loaded link is written, changed or not.
FlushLinks_touch_always(sess, store, now) ==
    LET t == "business_symptoms"
    IN  [k \in DOMAIN store[t] \cup NewKeys(sess, t) |->
            IF k \in NewKeys(sess, t)
            THEN [diagnostic |-> NewVal(sess, t, k), created_at |-> now, updated_at |-> now]
            ELSE IF k \in DOMAIN sess.identity_map[t]
            THEN [store[t][k] EXCEPT !.diagnostic = sess.identity_map[t][k],
                                     !.updated_at = now]
            ELSE store[t][k]]

\* The link table after the flush.  created_at and updated_at take their
\* default at INSERT; an UPDATE is emitted only for a loaded link whose
\* diagnostic differs from the stored one, and onupdate then sets updated_at.
FlushLinks(sess, store, now) ==
    LET t == "business_symptoms"
    IN  [k \in DOMAIN store[t] \cup NewKeys(sess, t) |->
            IF k \in NewKeys(sess, t)
            THEN [diagnostic |-> NewVal(sess, t, k), created_at |-> now, updated_at |-> now]
            ELSE IF k \in DOMAIN sess.identity_map[t]
                    /\ sess.identity_map[t][k] # store[t][k].diagnostic
            THEN [store[t][k] EXCEPT !.diagnostic = sess.identity_map[t][k],
                                     !.updated_at = now]
            ELSE store[t][k]]

Flush(sess, store, now) ==
    [businesses        |-> FlushNames(sess, store, "businesses"),
     symptoms          |-> FlushNames(sess, store, "symptoms"),
     business_symptoms |-> FlushLinks(sess, store, now)]

\* ForeignKey("businesses.id"), ForeignKey("symptoms.code")
ForeignKeyOk(store) ==
    \A k \in DOMAIN store.business_symptoms :
        /\ k[1] \in DOMAIN store.businesses
        /\ k[2] \in DOMAIN store.symptoms

\* Faulty variant of commit: the statements before the rejected one stay written.
commit_no_rollback(sess, store, now, enforce) ==
    IF PrimaryKeyOk(sess, store)
       /\ (enforce => ForeignKeyOk(Flush(sess, store, now)))
    THEN [error |-> "", db |-> Flush(sess, store, now)]
    ELSE [error |-> "IntegrityError", db |-> Flush(sess, store, now)]

\* Session.commit(): flush and commit in one transaction; a rejected
\* statement raises IntegrityError and the transaction is rolled back.
\* enforce tells whether the engine behind DB_URL checks foreign keys.
commit(sess, store, now, enforce) ==
    IF PrimaryKeyOk(sess, store)
       /\ (enforce => ForeignKeyOk(Flush(sess, store, now)))
    THEN [error |-> "", db |-> Flush(sess, store, now)]
    ELSE [error |-> "IntegrityError", db |-> store]

\* Session.close(): whatever is still pending is discarded, never written.
close(sess, store) == store

\* ------------------------------------------------- import_business_symptoms
\* Faulty variant of LoopBody: the business and the symptom are merged for every row.
LoopBody_merge_every_row(st, store, r) ==
    LET s1 == merge(st.session, store, "businesses", r.biz_id, r.biz_name)
        s2 == merge(s1, store, "symptoms", r.sym_code, r.sym_name)
        s3 == merge(s2, store, "business_symptoms", <<r.biz_id, r.sym_code>>, r.diag)
    IN  [session         |-> s3,
         seen_businesses |-> st.seen_businesses \cup {r.biz_id},
         seen_symptoms   |-> st.seen_symptoms \cup {r.sym_code},
         row_count       |-> st.row_count,
         error           |-> ""]

\* Faulty variant of LoopBody: the test on seen_businesses is inverted, so that no
\* business is ever merged.
LoopBody_no_business_merge(st, store, r) ==
    LET s1 == IF r.biz_id \in st.seen_businesses
              THEN merge(st.session, store, "businesses", r.biz_id, r.biz_name)
              ELSE st.session
        s2 == IF r.sym_code \notin st.seen_symptoms
              THEN merge(s1, store, "symptoms", r.sym_code, r.sym_name)
              ELSE s1
        s3 == merge(s2, store, "business_symptoms", <<r.biz_id, r.sym_code>>, r.diag)
    IN  [session         |-> s3,
         seen_businesses |-> st.seen_businesses \cup {r.biz_id},
         seen_symptoms   |-> st.seen_symptoms \cup {r.sym_code},
         row_count       |-> st.row_count,
         error           |-> ""]

\* One pass of the loop body over a parsed row: the business and the symptom
\* are merged only the first time their key is seen in this batch, the link
\* is merged for every row.
LoopBody(st, store, r) ==
    LET s1 == IF r.biz_id \notin st.seen_businesses
              THEN merge(st.session, store, "businesses", r.biz_id, r.biz_name)
              ELSE st.session
        s2 == IF r.sym_code \notin st.seen_symptoms
              THEN merge(s1, store, "symptoms", r.sym_code, r.sym_name)
              ELSE s1
        s3 == merge(s2, store, "business_symptoms", <<r.biz_id, r.sym_code>>, r.diag)
    IN  [session         |-> s3,
         seen_businesses |-> st.seen_businesses \cup {r.biz_id},
         seen_symptoms   |-> st.seen_symptoms \cup {r.sym_code},
         row_count       |-> st.row_count,
         error           |-> ""]

\* for row in reader: the counter is incremented before the row is parsed, and
\* the first row that raises ends the loop with what was staged so far.  rows
\* are the rows the reader yields.
RECURSIVE Loop(_, _, _, _)
Loop(st, store, header, rows) ==
    IF rows = <<>> THEN st
    ELSE Bind(ParseRow(header, Head(rows)), LAMBDA r :
             IF r.error # ""
             THEN [st EXCEPT !.row_count = @ + 1, !.error = r.error]
             ELSE Bind(LoopBody([st EXCEPT !.row_count = @ + 1], store, r),
                       LAMBDA next : Loop(next, store, header, Tail(rows))))

EmptyRows == [r \in {} |-> 0]

\* The handler as a whole, run on the session sess over the store: the
\* response, the store afterwards and the session afterwards.  A csv.Error is
\* raised by the for statement once the rows before the line are processed.
import_business_symptoms(sess, store, header, rows, now, enforce) ==
    Bind(DictReader(header, rows), LAMBDA reader :
    Bind(Loop([session |-> sess, seen_businesses |-> {}, seen_symptoms |-> {},
               row_count |-> 0, error |-> ""],
              store, header, reader.rows),
         LAMBDA st :
            IF st.error # ""
            THEN [status |-> 500, error |-> st.error, rows_processed |-> 0,
                  rows |-> EmptyRows, db |-> store, session |-> st.session]
            ELSE IF reader.error # ""
            THEN [status |-> 500, error |-> reader.error, rows_processed |-> 0,
                  rows |-> EmptyRows, db |-> store, session |-> st.session]
            ELSE Bind(commit(st.session, store, now, enforce), LAMBDA c :
                    IF c.error # ""
                    THEN [status |-> 500, error |-> c.error, rows_processed |-> 0,
                          rows |-> EmptyRows, db |-> c.db, session |-> st.session]
                    ELSE [status |-> 200, error |-> "", rows_processed |-> st.row_count,
                          rows |-> EmptyRows, db |-> c.db, session |-> SessionLocal])))

\* --------------------------------------------------- read_business_symptoms
NoneInt == [some |-> FALSE, v |-> 0]

NoneBool == [some |-> FALSE, v |-> FALSE]

Some(x) == [some |-> TRUE, v |-> x]

\* db.query(BusinessSymptom).join(Business).join(Symptom): the inner join on
\* the two foreign keys, as (link key, business id, symptom code).
Join(store) ==
    {t \in (DOMAIN store.business_symptoms) \X (DOMAIN store.businesses)
             \X (DOMAIN store.symptoms) :
        t[1][1] = t[2] /\ t[1][2] = t[3]}

Filter(store, joined, business_id, diagnostic) ==
    {t \in joined :
        /\ business_id.some => t[1][1] = business_id.v
        /\ diagnostic.some => store.business_symptoms[t[1]].diagnostic = diagnostic.v}

\* query.all(): the keys of the BusinessSymptom objects the filtered join
\* returns.  Their columns are loaded with them; their business and symptom
\* relationships are not.
query_all(store, business_id, diagnostic) ==
    {t[1] : t \in Filter(store, Join(store), business_id, diagnostic)}

\* Faulty variant of not_found: an empty result is not reported.
not_found_never(results) == FALSE

\* if not results: raise HTTPException(status_code=404, ...)
not_found(results) == results = {}

\* bs.business, bs.symptom: the object of that key this session has loaded,
\* or else a SELECT that reads it from the store as it is now.
lazy_load(sess, store, table, key) ==
    IF key \in DOMAIN sess.identity_map[table]
    THEN sess
    ELSE [sess EXCEPT !.identity_map[table] = Put(@, key, store[table][key])]

\* BusinessSymptomOut(...) of the result bs, read from the objects the session
\* holds.
BusinessSymptomOut(sess, bs) ==
    [business_id   |-> bs[1],
     business_name |-> sess.identity_map["businesses"][bs[1]],
     symptom_code  |-> bs[2],
     symptom_name  |-> sess.identity_map["symptoms"][bs[2]],
     diagnostic    |-> sess.identity_map["business_symptoms"][bs].diagnostic]

\* The session after query.all() returned results from the store.
Loaded(sess, store, results) ==
    [sess EXCEPT !.identity_map["business_symptoms"] =
        [k \in DOMAIN @ \cup results |->
            IF k \in DOMAIN @ THEN @[k] ELSE store.business_symptoms[k]]]

\* The session after the relationships of every result were loaded from the
\* store.
RECURSIVE LoadAll(_, _, _)
LoadAll(sess, store, results) ==
    IF results = {} THEN sess
    ELSE LET bs == CHOOSE k \in results : TRUE
         IN  LoadAll(lazy_load(lazy_load(sess, store, "businesses", bs[1]),
                               store, "symptoms", bs[2]),
                     store, results \ {bs})

\* The list of a response as a bag, the result order being unspecified: each
\* output row with the number of times it is returned.
RowBag(sess, results) ==
    LET out == {BusinessSymptomOut(sess, bs) : bs \in results}
    IN  [o \in out |-> Cardinality({bs \in results : BusinessSymptomOut(sess, bs) = o})]

\* The handler when the store does not change while it runs: every read is
\* of the same store.
read_business_symptoms(store, business_id, diagnostic) ==
    Bind(query_all(store, business_id, diagnostic), LAMBDA results :
        IF not_found(results)
        THEN [status |-> 404, error |-> "HTTPException", rows_processed |-> 0,
              rows |-> EmptyRows]
        ELSE Bind(LoadAll(Loaded(SessionLocal, store, results), store, results),
                  LAMBDA sess :
                      [status |-> 200, error |-> "", rows_processed |-> 0,
                       rows |-> RowBag(sess, results)]))

\* ------------------------------------------------------------------- get_db
\* db = SessionLocal(): one more open session.
get_db_open(n) == n + 1

\* Faulty variant of get_db_close: no try/finally, the close is skipped when the
\* handler raises.
get_db_close_on_success(status, n) == IF status = 200 THEN n - 1 ELSE n

\* finally: db.close(), whatever the handler's outcome was.
get_db_close(status, n) == n - 1

\* ------------------------------------------------------------------- inputs
ShortHeader == SubSeq(Columns, 1, 4)

\* The lines of the uploaded files, as the fields csv hands over:
\*   1 , A       , S, F, YES
\*   1 , "B "    , S, G, no
\*   "<U+000C><U+0662>" (form feed, ARABIC-INDIC DIGIT TWO), "B<U+00A0>", S, F, 0
FirstRow == << <<49>>, <<65>>, <<83>>, <<70>>, <<89, 69, 83>> >>

RowChoices ==
    { FirstRow,
      << <<49>>, <<66, 32>>, <<83>>, <<71>>, <<110, 111>> >>,
      << <<12, 1634>>, <<66, 160>>, <<83>>, <<70>>, <<48>> >> }

\* A line whose Business ID is no integer:  x , A , S , F , 1
BadRow == << <<120>>, <<65>>, <<83>>, <<70>>, <<49>> >>

\* A line with two fields missing:  2 , B , T
ShortRow == << <<50>>, <<66>>, <<84>> >>

RowSeqs(n) == UNION {[1..k -> RowChoices] : k \in 0..n}

Batches ==
    {[header |-> Columns, rows |-> rs] : rs \in RowSeqs(MaxRows)}
    \cup {[header |-> ShortHeader, rows |-> rs] : rs \in RowSeqs(1)}
    \cup {[header |-> Columns, rows |-> rs \o <<r>>] :
              rs \in RowSeqs(1), r \in {BadRow, ShortRow, MalformedLine}}

BusinessIdChoices == {NoneInt, Some(1), Some(2)}

DiagnosticChoices == {NoneBool, Some(TRUE), Some(FALSE)}

NoRequest == [op |-> "none", header |-> <<>>, rows |-> <<>>,
              business_id |-> NoneInt, diagnostic |-> NoneBool]

NoResponse == [status |-> 0, error |-> "", rows_processed |-> 0, rows |-> EmptyRows]

NoKey == [some |-> FALSE, v |-> <<0, <<>>>>]

\* The locals of a query handler: the results not yet converted, the result
\* whose business is loaded and whose symptom is not, the rows built so far;
\* and, for the record, the rows that the store query.all() read stands for.
NoFrame == [results |-> {}, bs |-> NoKey, out |-> EmptyRows, at_all |-> EmptyRows]

\* The stores the service starts on: the empty one, and the one an earlier
\* run left after importing the first row.
InitialStores ==
    {EmptyDb,
     import_business_symptoms(SessionLocal, EmptyDb, Columns, <<FirstRow>>, 0, TRUE).db}

\* The requests that can be in progress at once: the event loop accepts a
\* request while another is suspended or runs in the thread pool.
Slots == {1, 2}

\* ------------------------------------------------------------ state machine
Init ==
    /\ db \in InitialStores
    /\ clock = 0
    /\ calls = 0
    /\ open_sessions = 0
    /\ pc = [i \in Slots |-> "idle"]
    /\ request = [i \in Slots |-> NoRequest]
    /\ response = [i \in Slots |-> NoResponse]
    /\ session = [i \in Slots |-> SessionLocal]
    /\ frame = [i \in Slots |-> NoFrame]
    /\ sessions_used = [i \in Slots |-> 0]

FreeSlot(i) == pc[i] = "idle" /\ \A j \in Slots : pc[j] = "idle" => i <= j

\* A request for an endpoint arrives and Depends(get_db) runs get_db up to
\* its yield.  An import then starts and is suspended at await file.read(); a
\* query waits for its thread.  What the request carries is read when the
\* handler goes on.
Accept(op) ==
    \E i \in Slots :
        /\ FreeSlot(i)
        /\ calls < MaxCalls
        /\ calls' = calls + 1
        /\ request' = [request EXCEPT ![i] = [NoRequest EXCEPT !.op = op]]
        /\ response' = [response EXCEPT ![i] = NoResponse]
        /\ session' = [session EXCEPT ![i] = SessionLocal]
        /\ open_sessions' = get_db_open(open_sessions)
        /\ sessions_used' = [sessions_used EXCEPT ![i] = 1]
        /\ pc' = [pc EXCEPT ![i] = "handler"]
        /\ UNCHANGED <<db, clock, frame>>

PostImport == Accept("import")

GetBusinessSymptoms == Accept("query")

\* The import handler from the return of file.read() to its end: it has no
\* other await, so no other import runs in between.  utcnow() is read at the
\* flush, later than at every earlier flush.  Whether the engine behind
\* DB_URL enforces foreign keys is not fixed by the source.
ImportHandler(i) ==
    /\ pc[i] = "handler"
    /\ request[i].op = "import"
    /\ clock' = clock + 1
    /\ \E b \in Batches, enforce \in BOOLEAN :
         \E r \in {import_business_symptoms(session[i], db, b.header, b.rows,
                                            clock + 1, enforce)} :
           /\ request' = [request EXCEPT ![i].header = b.header, ![i].rows = b.rows]
           /\ db' = r.db
           /\ session' = [session EXCEPT ![i] = r.session]
           /\ response' = [response EXCEPT ![i] =
                              [status |-> r.status, error |-> r.error,
                               rows_processed |-> r.rows_processed, rows |-> r.rows]]
    /\ pc' = [pc EXCEPT ![i] = "finally"]
    /\ UNCHANGED <<calls, frame, open_sessions, sessions_used>>

\* The query handler up to the 404 or the start of the list comprehension:
\* one SELECT.  It runs in a worker thread, so imports run while it waits on
\* the database between its reads.
QueryAll(i) ==
    /\ pc[i] = "handler"
    /\ request[i].op = "query"
    /\ \E b \in BusinessIdChoices, d \in DiagnosticChoices :
         LET results == query_all(db, b, d)
         IN  /\ request' = [request EXCEPT ![i].business_id = b, ![i].diagnostic = d]
             /\ IF not_found(results)
                THEN /\ response' = [response EXCEPT ![i] =
                                        read_business_symptoms(db, b, d)]
                     /\ pc' = [pc EXCEPT ![i] = "finally"]
                     /\ UNCHANGED <<session, frame>>
                ELSE /\ session' = [session EXCEPT ![i] = Loaded(@, db, results)]
                     /\ frame' = [frame EXCEPT ![i] =
                                     [results |-> results, bs |-> NoKey,
                                      out |-> EmptyRows,
                                      at_all |-> read_business_symptoms(db, b, d).rows]]
                     /\ IF results = {}
                        THEN /\ response' = [response EXCEPT ![i] =
                                                [NoResponse EXCEPT !.status = 200]]
                             /\ pc' = [pc EXCEPT ![i] = "finally"]
                        ELSE /\ response' = response
                             /\ pc' = [pc EXCEPT ![i] = "comprehension"]
    /\ UNCHANGED <<db, clock, calls, open_sessions, sessions_used>>

\* bs.business of the next result: a SELECT unless this session holds the
\* business.  Each transaction reads what is committed when it reads.
LoadBusiness(i) ==
    /\ pc[i] = "comprehension"
    /\ ~frame[i].bs.some
    /\ \E bs \in frame[i].results :
         /\ session' = [session EXCEPT ![i] = lazy_load(@, db, "businesses", bs[1])]
         /\ frame' = [frame EXCEPT ![i].bs = Some(bs)]
    /\ UNCHANGED <<db, clock, calls, pc, request, response, open_sessions,
                   sessions_used>>

\* bs.symptom of the same result, then its BusinessSymptomOut; after the last
\* result the handler returns the list.
LoadSymptom(i) ==
    /\ pc[i] = "comprehension"
    /\ frame[i].bs.some
    /\ LET bs   == frame[i].bs.v
           sess == lazy_load(session[i], db, "symptoms", bs[2])
           o    == BusinessSymptomOut(sess, bs)
           out  == IF o \in DOMAIN frame[i].out
                   THEN [frame[i].out EXCEPT ![o] = @ + 1]
                   ELSE Put(frame[i].out, o, 1)
           rest == frame[i].results \ {bs}
       IN  /\ session' = [session EXCEPT ![i] = sess]
           /\ frame' = [frame EXCEPT ![i].results = rest, ![i].bs = NoKey,
                                     ![i].out = out]
           /\ IF rest = {}
              THEN /\ response' = [response EXCEPT ![i] =
                                      [NoResponse EXCEPT !.status = 200, !.rows = out]]
                   /\ pc' = [pc EXCEPT ![i] = "finally"]
              ELSE UNCHANGED <<response, pc>>
    /\ UNCHANGED <<db, clock, calls, request, open_sessions, sessions_used>>

\* The finally clause of get_db, after the handler returned or raised.
Release(i) ==
    /\ pc[i] = "finally"
    /\ db' = close(session[i], db)
    /\ session' = [session EXCEPT ![i] = SessionLocal]
    /\ frame' = [frame EXCEPT ![i] = NoFrame]
    /\ open_sessions' = get_db_close(response[i].status, open_sessions)
    /\ request' = [request EXCEPT ![i] = NoRequest]
    /\ response' = [response EXCEPT ![i] = NoResponse]
    /\ pc' = [pc EXCEPT ![i] = "idle"]
    /\ UNCHANGED <<clock, calls, sessions_used>>

Next ==
    \/ PostImport
    \/ GetBusinessSymptoms
    \/ \E i \in Slots : ImportHandler(i)
    \/ \E i \in Slots : QueryAll(i)
    \/ \E i \in Slots : LoadBusiness(i)
    \/ \E i \in Slots : LoadSymptom(i)
    \/ \E i \in Slots : Release(i)

Spec == Init /\ [][Next]_vars

\* Once a handler has returned or raised, the framework resumes get_db and
\* its finally clause runs.
LiveSpec == Spec /\ \A i \in Slots : WF_vars(Release(i))

\* ------------------------------------------------------------------- claims
\* Slot i's import handler runs in this step and answers 200.
ImportSucceeds(i) ==
    /\ pc[i] = "handler"
    /\ request[i].op = "import"
    /\ pc'[i] = "finally"
    /\ response'[i].status = 200

\* Slot i's import handler runs in this step and raises.
ImportFails(i) ==
    /\ pc[i] = "handler"
    /\ request[i].op = "import"
    /\ pc'[i] = "finally"
    /\ response'[i].status # 200

\* Slot i's session is closed in this step, after its import raised.
FailedImportCloses(i) ==
    /\ pc[i] = "finally"
    /\ request[i].op = "import"
    /\ response[i].status # 200
    /\ pc'[i] = "idle"

\* Slot i's query handler runs query.all() in this step.
QueryAllRuns(i) ==
    /\ pc[i] = "handler"
    /\ request[i].op = "query"
    /\ pc'[i] # "handler"

\* Slot i's query handler returns or raises in this step.
QueryEnds(i) ==
    /\ pc[i] \in {"handler", "comprehension"}
    /\ request[i].op = "query"
    /\ pc'[i] = "finally"

\* Slot i holds an import whose handler has answered 200.
ImportSucceeded(i) ==
    pc[i] = "finally" /\ request[i].op = "import" /\ response[i].status = 200

\* The lines of an import request as the loop reads them, in order.
RECURSIVE ParseLines(_, _)
ParseLines(header, lines) ==
    IF lines = <<>> THEN <<>>
    ELSE <<ParseRow(header, Head(lines))>> \o ParseLines(header, Tail(lines))

BatchRows(req) == ParseLines(req.header, DictReader(req.header, req.rows).rows)

\* The reader reads every line of the request.
ReaderOk(req) == DictReader(req.header, req.rows).error = ""

AllRowsParse(rows) == \A n \in DOMAIN rows : rows[n].error = ""

Pair(r) == <<r.biz_id, r.sym_code>>

IsLastOfPair(rows, n) ==
    \A m \in DOMAIN rows : Pair(rows[m]) = Pair(rows[n]) => m <= n

IsFirstOfBusiness(rows, n) ==
    \A m \in DOMAIN rows : rows[m].biz_id = rows[n].biz_id => n <= m

IsLastOfBusiness(rows, n) ==
    \A m \in DOMAIN rows : rows[m].biz_id = rows[n].biz_id => m <= n

NameConflict(rows, n) ==
    \E m \in DOMAIN rows :
        /\ rows[m].biz_id = rows[n].biz_id
        /\ rows[m].biz_name # rows[n].biz_name

\* The persisted state without the timestamps: names and diagnostic flags.
Content(store) ==
    [businesses        |-> store.businesses,
     symptoms          |-> store.symptoms,
     business_symptoms |-> [k \in DOMAIN store.business_symptoms |->
                               store.business_symptoms[k].diagnostic]]

\* The links that satisfy the filters, taken from the link table alone.
Matching(store, business_id, diagnostic) ==
    {k \in DOMAIN store.business_symptoms :
        /\ business_id.some => k[1] = business_id.v
        /\ diagnostic.some => store.business_symptoms[k].diagnostic = diagnostic.v}

\* C1: a failed import (a line the reader cannot read, a row that does not
\* parse, a missing column, a rejected commit) writes nothing: the persisted businesses, symptoms and
\* links are the same after the handler raised as before it ran, and the same
\* after its session is closed as before.
C1_AllOrNothing ==
    [][\A i \in Slots : (ImportFails(i) \/ FailedImportCloses(i)) => db' = db]_vars

\* C1 witness: a row after a valid one failed to parse, with the valid row's
\* writes staged, over a store that holds links.
C1_Witness ==
    \E i \in Slots :
        /\ pc[i] = "finally"
        /\ request[i].op = "import"
        /\ response[i].error = "ValueError"
        /\ session[i].new["business_symptoms"] # <<>>
        /\ db.business_symptoms # EmptyTable

\* C2: right after a successful import, importing the same batch again
\* succeeds and leaves the same businesses, symptoms and links (names and
\* flags) and the same result for every combination of the query filters:
\* the store is the same, timestamps included, or differs in timestamps only.
C2_Idempotent ==
    [][\A i \in Slots :
          ImportSucceeds(i) =>
              \A enforce \in BOOLEAN :
                  \A again \in {import_business_symptoms(
                                    SessionLocal, db', request'[i].header,
                                    request'[i].rows, clock' + 1, enforce)} :
                      /\ again.status = 200
                      /\ \/ again.db = db'
                         \/ /\ Content(again.db) = Content(db')
                            /\ \A b \in BusinessIdChoices, d \in DiagnosticChoices :
                                   read_business_symptoms(again.db, b, d)
                                       = read_business_symptoms(db', b, d)
      ]_vars

\* C2 witness: a successful import of two rows over a store that already held
\* a link.
C2_Witness ==
    \E i \in Slots :
        /\ ImportSucceeded(i)
        /\ Len(request[i].rows) = 2
        /\ \E k \in DOMAIN db.business_symptoms :
               db.business_symptoms[k].created_at < clock

\* C3 as stated: when a business id occurs in several rows of a successfully
\* imported batch with different names, the persisted name is that of the last
\* row carrying the id.
C3_LastNameWins ==
    [][\A i \in Slots :
          ImportSucceeds(i) =>
            \A rows \in {BatchRows(request'[i])} :
              \A n \in DOMAIN rows :
                  (NameConflict(rows, n) /\ IsLastOfBusiness(rows, n)) =>
                      db'.businesses[rows[n].biz_id]
                          = rows[n].biz_name
      ]_vars

\* C3 amended: the persisted name is that of the first row carrying the id.
C3_FirstNameWins ==
    [][\A i \in Slots :
          ImportSucceeds(i) =>
            \A rows \in {BatchRows(request'[i])} :
              \A n \in DOMAIN rows :
                  (NameConflict(rows, n) /\ IsFirstOfBusiness(rows, n)) =>
                      db'.businesses[rows[n].biz_id]
                          = rows[n].biz_name
      ]_vars

\* C3 witness: a successful import in which one business id came with two
\* names.
C3_Witness ==
    \E i \in Slots :
        /\ ImportSucceeded(i)
        /\ \E rows \in {BatchRows(request[i])} :
               \E n \in DOMAIN rows : NameConflict(rows, n)

\* Whether the query for the business id and flag of row n, over the store,
\* succeeds and returns a row of that row's pair.
RowIsFound(store, rows, n) ==
    LET r == read_business_symptoms(store, Some(rows[n].biz_id),
                                    Some(rows[n].diag))
    IN  /\ r.status = 200
        /\ \E o \in DOMAIN r.rows :
               /\ o.business_id = rows[n].biz_id
               /\ o.symptom_code = rows[n].sym_code

\* C4 as stated: right after a successful import, every row of the batch is
\* found by the query for its business id and its flag.
C4_EveryRowFound ==
    [][\A i \in Slots :
          ImportSucceeds(i) =>
            \A rows \in {BatchRows(request'[i])} :
              \A n \in DOMAIN rows : RowIsFound(db', rows, n)
      ]_vars

\* Row n carries the flag of the last row of the batch with its pair.
HasLastFlagOfPair(rows, n) ==
    \A m \in DOMAIN rows :
        (Pair(rows[m]) = Pair(rows[n]) /\ IsLastOfPair(rows, m)) =>
            rows[m].diag = rows[n].diag

\* C4 amended: a row of the batch is found by the query for its business id
\* and its flag exactly when its flag is that of the last row of the batch
\* with its pair.
C4_FoundIffLastFlagOfPair ==
    [][\A i \in Slots :
          ImportSucceeds(i) =>
            \A rows \in {BatchRows(request'[i])} :
              \A n \in DOMAIN rows :
                  RowIsFound(db', rows, n) <=> HasLastFlagOfPair(rows, n)
      ]_vars

\* C4 witness: a successful import in which one pair came with both flags.
C4_Witness ==
    \E i \in Slots :
        /\ ImportSucceeded(i)
        /\ \E rows \in {BatchRows(request[i])} : \E n, m \in DOMAIN rows :
               /\ Pair(rows[n]) = Pair(rows[m])
               /\ rows[n].diag # rows[m].diag

\* C5: a successful query returns exactly the persisted links that satisfy
\* every provided filter, each once, each with the persisted names of its
\* business and symptom and with its persisted flag: the rows returned are
\* those of the store that query.all() read.
C5_ExactlyTheMatchingLinks ==
    [][\A i \in Slots :
          (QueryEnds(i) /\ response'[i].status = 200) =>
              /\ response'[i].rows = frame'[i].at_all
              /\ \A o \in DOMAIN response'[i].rows : response'[i].rows[o] = 1
              /\ request'[i].diagnostic.some =>
                     \A o \in DOMAIN response'[i].rows :
                         o.diagnostic = request'[i].diagnostic.v
      ]_vars

\* C6: a query answers 404 exactly when no persisted link satisfies the
\* filters in the store as query.all() reads it, it answers nothing but 200
\* or 404, and a 200 answer is never empty.
C6_NotFoundIffNoMatch ==
    [][\A i \in Slots :
          /\ QueryAllRuns(i) =>
                 (response'[i].status = 404 <=>
                     Matching(db, request'[i].business_id, request'[i].diagnostic) = {})
          /\ QueryEnds(i) =>
                 /\ response'[i].status \in {200, 404}
                 /\ response'[i].status = 200 => DOMAIN response'[i].rows # {}
      ]_vars

\* C6 witness: a 404 for a business id without links, over a store that holds
\* links.
C6_Witness ==
    \E i \in Slots :
        /\ pc[i] = "finally"
        /\ request[i].op = "query"
        /\ response[i].status = 404
        /\ request[i].business_id.some
        /\ db.business_symptoms # EmptyTable

\* C7: every persisted link names a persisted business and a persisted
\* symptom, in every state reached from the empty store.
C7_ReferentialIntegrity ==
    \A k \in DOMAIN db.business_symptoms :
        /\ k[1] \in DOMAIN db.businesses
        /\ k[2] \in DOMAIN db.symptoms

\* C7 witness: links are stored and an import has just failed.
C7_Witness ==
    \E i \in Slots :
        /\ pc[i] = "finally"
        /\ request[i].op = "import"
        /\ response[i].status = 500
        /\ db.business_symptoms # EmptyTable

\* The rows of a batch whose link is persisted before its import.
UpsertRows(rows) ==
    {n \in DOMAIN rows : Pair(rows[n]) \in DOMAIN db.business_symptoms}

\* C8 as stated: for every row of a successful import whose link was already
\* persisted, the link takes the row's flag, updated_at becomes the time of
\* this import, later than before, and created_at is kept.
C8_EveryUpsertTouches ==
    [][\A i \in Slots :
          ImportSucceeds(i) =>
            \A rows \in {BatchRows(request'[i])} :
              \A n \in UpsertRows(rows) :
                  LET k == Pair(rows[n])
                  IN  /\ db'.business_symptoms[k].diagnostic = rows[n].diag
                      /\ db'.business_symptoms[k].updated_at = clock'
                      /\ db'.business_symptoms[k].updated_at
                             > db.business_symptoms[k].updated_at
                      /\ db'.business_symptoms[k].created_at
                             = db.business_symptoms[k].created_at
      ]_vars

\* C8 amended: the link takes the flag of the last row of its pair and
\* created_at is kept; updated_at becomes the time of this import, later than
\* before, when that flag differs from the persisted one, and is kept when it
\* does not.
C8_UpsertTouchesOnChange ==
    [][\A i \in Slots :
          ImportSucceeds(i) =>
            \A rows \in {BatchRows(request'[i])} :
              \A n \in UpsertRows(rows) :
                  IsLastOfPair(rows, n) =>
                      LET k   == Pair(rows[n])
                          old == db.business_symptoms[k]
                          new == db'.business_symptoms[k]
                      IN  /\ new.diagnostic = rows[n].diag
                          /\ new.created_at = old.created_at
                          /\ IF old.diagnostic # rows[n].diag
                             THEN new.updated_at = clock'
                                  /\ new.updated_at > old.updated_at
                             ELSE new.updated_at = old.updated_at
      ]_vars

\* C8 witness: a successful import changed the flag of a link persisted by an
\* earlier one.
C8_Witness ==
    \E i \in Slots :
        /\ ImportSucceeded(i)
        /\ \E rows \in {BatchRows(request[i])} : \E n \in DOMAIN rows :
               /\ Pair(rows[n]) \in DOMAIN db.business_symptoms
               /\ db.business_symptoms[Pair(rows[n])].created_at < clock
               /\ db.business_symptoms[Pair(rows[n])].updated_at = clock

\* C9: a batch that the reader reads and whose rows all parse is imported
\* successfully, and every pair of the batch then has a link with the flag of
\* the last row of that pair.
C9_ParsedBatchSucceeds ==
    [][\A i \in Slots :
          (pc[i] = "handler" /\ request[i].op = "import" /\ pc'[i] = "finally") =>
            \A rows \in {BatchRows(request'[i])} :
              (ReaderOk(request'[i]) /\ AllRowsParse(rows)) =>
              /\ response'[i].status = 200
              /\ \A n \in DOMAIN rows :
                     IsLastOfPair(rows, n) =>
                         /\ Pair(rows[n]) \in DOMAIN db'.business_symptoms
                         /\ db'.business_symptoms[Pair(rows[n])].diagnostic
                                = rows[n].diag
      ]_vars

\* C10: every call in progress holds exactly one session, a call that has
\* ended holds none, no call uses more than one, and on every exit of a
\* handler (returned or raised) the call's session is eventually closed.
C10_SessionReleased ==
    /\ [](/\ \A i \in Slots : sessions_used[i] <= 1
          /\ \A i \in Slots : pc[i] # "idle" => sessions_used[i] = 1
          /\ open_sessions = Cardinality({i \in Slots : pc[i] # "idle"}))
    /\ \A i \in Slots :
           (pc[i] = "finally") ~> (pc[i] = "idle" /\ open_sessions < Cardinality(Slots))

\* C10 witness: two calls were in progress at once, one has ended with its
\* session closed and the other still holds its own.
C10_Witness ==
    \E i, j \in Slots :
        /\ pc[i] = "idle"
        /\ sessions_used[i] = 1
        /\ pc[j] = "finally"
        /\ response[j].status = 500
        /\ open_sessions = 1

====
